---------------------------- MODULE Spec2Model ----------------------------
(***************************************************************************)
(* exact_outline_post.py: a G-code post-processor.  It scans the lines of  *)
(* a file once, collecting per printed object the XY points of its motion  *)
(* lines, then builds one EXCLUDE_OBJECT_DEFINE command per object (hull,  *)
(* simplification, centre, name) and splices the block of commands into    *)
(* the line list before the first real G-code line.                        *)
(*                                                                         *)
(* Text is modelled as TLA+ strings, a line keeps its "\n".  Coordinates   *)
(* are integers: a parsed float is held in thousandths, a stored point in  *)
(* hundredths (round(x, 2)), a printed value in thousandths (round(x, 3)). *)
(* Optional values (None) are <<>> and <<v>>.                              *)
(***************************************************************************)
EXTENDS Integers, Sequences, FiniteSets, TLC

VARIABLES
    lines,              \* f.readlines(): the input, fixed for a run
    pc,                 \* "scan", "emit", "done" (main); "call", "loop", "returned" (simplify_polygon);
                        \* "hull_call", "alphashape", "hull_branch", "hull_returned" (concave_hull)
    output_lines,       \* main: output_lines
    insert_position,    \* main: insert_position, <<>> is None
    current_object_id,  \* main: current_object_id, <<>> is None
    in_support,         \* main: in_support
    objects,            \* main: objects, the dict as the sequence of its items in insertion order
    name_counts,        \* main: name_counts, the defaultdict(int) as a function on the keys it holds
    define_commands,    \* main: define_commands
    visited,            \* number of items of objects the emit loop has taken
    stdout,             \* what the emit loop printed, one record per print (the scan's
                        \* "Found object" lines and the closing summary are left out)
    poly,               \* simplify_polygon: poly
    tolerance,          \* simplify_polygon: tolerance, in tenths
    simplified,         \* simplify_polygon: simplified
    simplify_calls,     \* simplify_polygon: the receivers and tolerances of the .simplify calls made
    ch_points,          \* concave_hull: points
    ch_alpha,           \* concave_hull: what alphashape.alphashape gave (its result, or Raised)
    ch_hull             \* concave_hull: the geometry returned

vars == <<lines, pc, output_lines, insert_position, current_object_id, in_support,
          objects, name_counts, define_commands, visited, stdout,
          poly, tolerance, simplified, simplify_calls, ch_points, ch_alpha, ch_hull>>

\* The variables of a call of concave_hull on its own.
hullvars == <<ch_points, ch_alpha, ch_hull>>

None == <<>>
Some(v) == <<v>>

-----------------------------------------------------------------------------
(* Python str operations, on the characters the inputs use.                *)

Ch(s, i) == SubSeq(s, i, i)

Whitespace == {" ", "\t", "\n", "\r"}

UpperChars == "ABCDEFGHIJKLMNOPQRSTUVWXYZ"
LowerChars == "abcdefghijklmnopqrstuvwxyz"
Digits == "0123456789"

\* The least element of a non-empty set of integers.
Min(S) == CHOOSE i \in S : \A j \in S : i <= j

\* 0-based position of the one-character string c in alphabet, -1 when absent.
IndexIn(alphabet, c) ==
    LET at == {i \in 1..Len(alphabet) : Ch(alphabet, i) = c}
    IN  IF at = {} THEN -1 ELSE Min(at) - 1

\* s[a:b] of Python for 0 <= a, 0 <= b: empty when b <= a, cut at the end of s.
Slice(s, a, b) == SubSeq(s, a + 1, IF b > Len(s) THEN Len(s) ELSE b)

\* str.lstrip()
LStrip(s) ==
    LET solid == {i \in 1..Len(s) : Ch(s, i) \notin Whitespace}
    IN  IF solid = {} THEN "" ELSE SubSeq(s, Min(solid), Len(s))

\* str.strip()
Strip(s) ==
    LET solid == {i \in 1..Len(s) : Ch(s, i) \notin Whitespace}
    IN  IF solid = {} THEN ""
        ELSE SubSeq(s, Min(solid), CHOOSE i \in solid : \A j \in solid : j <= i)

\* str.startswith(p)
StartsWith(s, p) == Len(s) >= Len(p) /\ SubSeq(s, 1, Len(p)) = p

\* str.find(p): the first 0-based position of p in s, or -1.
Find(s, p) ==
    LET at == {i \in 0..(Len(s) - Len(p)) : SubSeq(s, i + 1, i + Len(p)) = p}
    IN  IF at = {} THEN -1 ELSE Min(at)

\* p in s
Contains(s, p) == Find(s, p) >= 0

LowerChar(c) ==
    LET u == IndexIn(UpperChars, c) IN IF u >= 0 THEN Ch(LowerChars, u + 1) ELSE c

\* str.lower()
RECURSIVE Lower(_)
Lower(s) ==
    IF Len(s) = 0 THEN s
    ELSE IF Len(s) = 1 THEN LowerChar(s)
    ELSE Lower(SubSeq(s, 1, Len(s) \div 2)) \o Lower(SubSeq(s, Len(s) \div 2 + 1, Len(s)))

\* str.split(): the maximal runs of non-whitespace characters, in order.
RECURSIVE SplitWs(_)
SplitWs(s) ==
    LET t == LStrip(s)
        gaps == {i \in 1..Len(t) : Ch(t, i) \in Whitespace}
        e == IF gaps = {} THEN Len(t) ELSE Min(gaps) - 1
    IN  IF Len(t) = 0 THEN <<>>
        ELSE <<SubSeq(t, 1, e)>> \o SplitWs(SubSeq(t, e + 1, Len(t)))

\* str.split(sep)
RECURSIVE SplitOn(_, _)
SplitOn(s, sep) ==
    LET at == Find(s, sep)
    IN  IF at < 0 THEN <<s>>
        ELSE <<Slice(s, 0, at)>> \o SplitOn(SubSeq(s, at + Len(sep) + 1, Len(s)), sep)

\* The value of a string of decimal digits; None for the empty string or another character.
RECURSIVE DigitsValue(_, _)
DigitsValue(s, acc) ==
    IF Len(s) = 0 THEN Some(acc)
    ELSE LET d == IndexIn(Digits, Ch(s, 1))
         IN  IF d < 0 THEN None ELSE DigitsValue(SubSeq(s, 2, Len(s)), 10 * acc + d)

Unsigned(s) == IF Len(s) = 0 THEN None ELSE DigitsValue(s, 0)

\* int(tok) for a token without whitespace: an optional sign and decimal digits;
\* None where int raises ValueError.
ParseInt(tok) ==
    LET signed == Len(tok) > 0 /\ Ch(tok, 1) \in {"+", "-"}
        body == IF signed THEN SubSeq(tok, 2, Len(tok)) ELSE tok
        v == Unsigned(body)
    IN  IF v = None THEN None
        ELSE IF signed /\ Ch(tok, 1) = "-" THEN Some(0 - v[1]) ELSE v

RECURSIVE Pow10(_)
Pow10(n) == IF n = 0 THEN 1 ELSE 10 * Pow10(n - 1)

\* float(tok), in thousandths, for a token without whitespace: an optional sign,
\* digits with at most one point and at least one digit, at most three digits
\* after the point; None where float raises ValueError.  (Exponents, inf, nan and
\* underscores are not among the inputs.)
ParseFloat(tok) ==
    LET signed == Len(tok) > 0 /\ Ch(tok, 1) \in {"+", "-"}
        body == IF signed THEN SubSeq(tok, 2, Len(tok)) ELSE tok
        dot == Find(body, ".")
        ip == IF dot < 0 THEN body ELSE Slice(body, 0, dot)
        fp == IF dot < 0 THEN "" ELSE SubSeq(body, dot + 2, Len(body))
        iv == IF Len(ip) = 0 THEN Some(0) ELSE DigitsValue(ip, 0)
        fv == IF Len(fp) = 0 THEN Some(0) ELSE DigitsValue(SubSeq(fp, 1, IF Len(fp) > 3 THEN 3 ELSE Len(fp)), 0)
        fd == IF Len(fp) > 3 THEN 3 ELSE Len(fp)
        rest == IF Len(fp) > 3 THEN DigitsValue(SubSeq(fp, 4, Len(fp)), 0) ELSE Some(0)
    IN  IF Len(ip) + Len(fp) = 0 \/ iv = None \/ fv = None \/ rest = None THEN None
        ELSE LET m == 1000 * iv[1] + fv[1] * Pow10(3 - fd)
             IN  IF signed /\ Ch(tok, 1) = "-" THEN Some(0 - m) ELSE Some(m)

\* round(x, 2) of a float held in thousandths, in hundredths.  The inputs hold no
\* value half way between two hundredths (where the binary float decides).
Round2(m) == (m + 5) \div 10


-----------------------------------------------------------------------------
(* The scan: one pass over the lines.                                      *)

\* extract_xy(line): the last X field and the last Y field that parse, each None
\* when there is none.
RECURSIVE ExtractParts(_, _, _)
ExtractParts(parts, x, y) ==
    IF parts = <<>> THEN <<x, y>>
    ELSE LET part == Head(parts)
             px == IF StartsWith(part, "X") THEN ParseFloat(SubSeq(part, 2, Len(part))) ELSE None
             py == IF StartsWith(part, "Y") THEN ParseFloat(SubSeq(part, 2, Len(part))) ELSE None
         IN  ExtractParts(Tail(parts), IF px = None THEN x ELSE px, IF py = None THEN y ELSE py)

\* A variant that starts from 0 for both coordinates.
extract_xy_zero(line) == ExtractParts(SplitWs(line), Some(0), Some(0))

extract_xy(line) == ExtractParts(SplitWs(line), None, None)

\* The position in the dict's item order of the key id, 0 when the key is absent.
RECURSIVE KeyIndex(_, _, _)
KeyIndex(objs, id, k) ==
    IF k > Len(objs) THEN 0
    ELSE IF objs[k].id = id THEN k
    ELSE KeyIndex(objs, id, k + 1)

\* A variant that takes M lines only.
IsAnchorLineM(ls) ==
    /\ ls # ""
    /\ ~StartsWith(ls, ";")
    /\ StartsWith(ls, "M")

\* The anchor test: a stripped line that is not empty, is no comment and starts with G or M.
IsAnchorLine(ls) ==
    /\ ls # ""
    /\ ~StartsWith(ls, ";")
    /\ (StartsWith(ls, "G") \/ StartsWith(ls, "M"))

\* The object id of a start marker: None when there is no "id:" or no integer after it.
StartMarkerId(ls) ==
    LET name_start == Find(ls, "object") + 7
        id_start == Find(ls, "id:")
    IN  IF name_start > 7 /\ id_start > 0
        THEN LET toks == SplitWs(SplitOn(ls, "id:")[2])
             IN  IF toks = <<>> THEN None ELSE ParseInt(toks[1])
        ELSE None

\* The name of a start marker: the text between "object" and "id:".
StartMarkerName(ls) == Strip(Slice(ls, Find(ls, "object") + 7, Find(ls, "id:")))

\* A line that sets the support flag.
IsSupportMarker(ls) == Contains(ls, ";TYPE:Support") \/ Contains(Lower(ls), ";type:support")

\* A line that clears the support flag.
IsTypeReset(ls) == Contains(ls, ";TYPE:") /\ ~Contains(ls, ";TYPE:Support")

\* A motion line.
IsMove(ls) == StartsWith(ls, "G1") \/ StartsWith(ls, "G0")

\* A variant that takes the last line passing the anchor test.
AnchorLast(pos, ls, idx) == IF IsAnchorLine(ls) THEN Some(idx) ELSE pos

\* insert_position after the line at index idx: set when it is still None and the
\* line passes the anchor test.
AnchorUpdate(pos, ls, idx) == IF pos = None /\ IsAnchorLine(ls) THEN Some(idx) ELSE pos

\* A variant that collects whatever the support flag.
CollectInSupport(current, support, ls) == current # None /\ IsMove(ls)

\* The test that guards the collection of a line's coordinates.
ShouldCollect(current, support, ls) == current # None /\ ~support /\ IsMove(ls)

\* A variant that clears the flag only when the marker gives an id.
SupportAtStartIfId(support, obj_id) == IF obj_id = None THEN support ELSE FALSE

\* "in_support = False", the first statement under the start keyword.
SupportAtStart(support, obj_id) == FALSE

\* A variant that makes a new record at every start marker.
RegisterAlways(objs, id, name) ==
    IF KeyIndex(objs, id, 1) > 0
    THEN [objs EXCEPT ![KeyIndex(objs, id, 1)] = [id |-> id, name |-> name, points |-> {}]]
    ELSE Append(objs, [id |-> id, name |-> name, points |-> {}])

\* "if current_object_id not in objects: objects[current_object_id] = {...}"
Register(objs, id, name) ==
    IF KeyIndex(objs, id, 1) > 0 THEN objs
    ELSE Append(objs, [id |-> id, name |-> name, points |-> {}])

\* A variant that keeps the last point only.
PointReplace(points, x, y) == {<<Round2(x), Round2(y)>>}

\* points.add((round(x, 2), round(y, 2)))
PointAdd(points, x, y) == points \cup {<<Round2(x), Round2(y)>>}

\* The body of the loop over the lines, for the line at 0-based index idx, on the
\* scanner's variables st.
ScanStep(st, line, idx) ==
    LET ls == Strip(line)
        st1 == [st EXCEPT !.insert_position = AnchorUpdate(@, ls, idx)]
    IN  IF StartsWith(ls, "; printing object")
        THEN LET obj_id == StartMarkerId(ls)
                 st2 == [st1 EXCEPT !.in_support = SupportAtStart(@, obj_id)]
             IN  IF obj_id = None THEN st2
                 ELSE [st2 EXCEPT
                         !.current_object_id = obj_id,
                         !.objects = Register(@, obj_id[1], StartMarkerName(ls))]
        ELSE IF StartsWith(ls, "; stop printing object")
        THEN [st1 EXCEPT !.current_object_id = None]
        ELSE IF IsSupportMarker(ls)
        THEN [st1 EXCEPT !.in_support = TRUE]
        ELSE LET st3 == IF IsTypeReset(ls) THEN [st1 EXCEPT !.in_support = FALSE] ELSE st1
                 xy == extract_xy(ls)
             IN  IF /\ ShouldCollect(st3.current_object_id, st3.in_support, ls)
                    /\ xy[1] # None
                    /\ xy[2] # None
                 THEN [st3 EXCEPT !.objects[KeyIndex(st3.objects, st3.current_object_id[1], 1)].points =
                                        PointAdd(@, xy[1][1], xy[2][1])]
                 ELSE st3

Scanner == [insert_position |-> insert_position,
            current_object_id |-> current_object_id,
            in_support |-> in_support,
            objects |-> objects]

\* One iteration of "for i, line in enumerate(lines)".
ScanLine ==
    /\ pc = "scan"
    /\ Len(output_lines) < Len(lines)
    /\ LET idx == Len(output_lines)
           line == lines[idx + 1]
           st == ScanStep(Scanner, line, idx)
       IN  /\ output_lines' = Append(output_lines, line)
           /\ insert_position' = st.insert_position
           /\ current_object_id' = st.current_object_id
           /\ in_support' = st.in_support
           /\ objects' = st.objects
    /\ UNCHANGED hullvars
    /\ UNCHANGED <<lines, pc, name_counts, define_commands, visited, stdout,
                   poly, tolerance, simplified, simplify_calls>>


-----------------------------------------------------------------------------
(* Geometry.  A point is <<x, y>> in hundredths.  A geometry is a record   *)
(* with its geom_type; a Polygon or LineString holds coords, a Polygon's   *)
(* ring closed by a repeat of its first coordinate, a MultiPolygon holds   *)
(* geoms.  shapely and alphashape are libraries: what they return is       *)
(* chosen by the action that calls them, among the answers described here. *)

Polygon(ring) == [type |-> "Polygon", coords |-> ring]
LineString(cs) == [type |-> "LineString", coords |-> cs]
MultiPolygon(gs) == [type |-> "MultiPolygon", geoms |-> gs]
EmptyCollection == [type |-> "GeometryCollection", coords |-> <<>>]

\* geometry.is_empty
is_empty(g) == IF g.type = "MultiPolygon" THEN g.geoms = <<>> ELSE g.coords = <<>>

Cross(o, a, b) == (a[1] - o[1]) * (b[2] - o[2]) - (a[2] - o[2]) * (b[1] - o[1])

Collinear(P) == \A a \in P, b \in P, c \in P : Cross(a, b, c) = 0

\* c lies strictly inside the segment from a to b, given that the three are collinear.
Between(a, b, c) ==
    /\ c # a /\ c # b
    /\ (a[1] - c[1]) * (b[1] - c[1]) <= 0
    /\ (a[2] - c[2]) * (b[2] - c[2]) <= 0

\* p -> q is an edge of the convex hull of P walked counter-clockwise: every other
\* point is to its left, or on it between p and q.
HullEdge(P, p, q) ==
    /\ p # q
    /\ \A r \in P \ {p, q} :
          \/ Cross(p, q, r) > 0
          \/ Cross(p, q, r) = 0 /\ Between(p, q, r)

HullVertices(P) == {p \in P : \E q \in P : HullEdge(P, p, q)}

HullNext(P, p) == CHOOSE q \in P : HullEdge(P, p, q)

\* The hull's vertices walked counter-clockwise from start, n of them.
RECURSIVE HullWalk(_, _, _)
HullWalk(P, p, n) == IF n = 0 THEN <<>> ELSE <<p>> \o HullWalk(P, HullNext(P, p), n - 1)

RECURSIVE Reverse(_)
Reverse(s) == IF s = <<>> THEN <<>> ELSE Append(Reverse(Tail(s)), Head(s))

\* The closed rings that present the convex hull of the non-collinear points P:
\* from any vertex, in either direction (the library fixes both, the program
\* relies on neither).
HullRings(P) ==
    LET V == HullVertices(P)
    IN  UNION {LET w == HullWalk(P, v, Cardinality(V))
               IN  {Append(w, v), Reverse(Append(w, v))} : v \in V}

\* The least and the greatest point of P in (x, y) order.
Least(P) == CHOOSE p \in P : \A q \in P : p[1] < q[1] \/ (p[1] = q[1] /\ p[2] <= q[2])
Greatest(P) == CHOOSE p \in P : \A q \in P : p[1] > q[1] \/ (p[1] = q[1] /\ p[2] >= q[2])

\* MultiPoint(points).convex_hull for two or more distinct points: the answers it
\* can give.  Collinear points have a LineString for hull.
ConvexHulls(P) ==
    IF Collinear(P) THEN {LineString(<<Least(P), Greatest(P)>>)}
    ELSE {Polygon(r) : r \in HullRings(P)}

\* Twice the area of a closed ring (shoelace), the sign dropped.
RECURSIVE Shoelace(_, _)
Shoelace(ring, k) ==
    IF k >= Len(ring) THEN 0
    ELSE ring[k][1] * ring[k + 1][2] - ring[k + 1][1] * ring[k][2] + Shoelace(ring, k + 1)

Abs(n) == IF n < 0 THEN 0 - n ELSE n

\* polygon.area, doubled
Area2(g) == Abs(Shoelace(g.coords, 1))

\* max(geoms, key=lambda p: p.area): the first of the largest.
RECURSIVE MaxByArea(_, _)
MaxByArea(gs, best) ==
    IF gs = <<>> THEN best
    ELSE MaxByArea(Tail(gs), IF Area2(Head(gs)) > Area2(best) THEN Head(gs) ELSE best)

\* The triangle on three non-collinear points, counter-clockwise from the least.
Triangle(T) ==
    LET a == Least(T)
        b == CHOOSE b \in T \ {a} : \E c \in T \ {a, b} : Cross(a, b, c) > 0
        c == CHOOSE c \in T \ {a, b} : TRUE
    IN  Polygon(<<a, b, c, a>>)

Triples(P) == {T \in SUBSET P : Cardinality(T) = 3 /\ ~Collinear(T)}

\* A closed ring of four or more vertices with its second and third exchanged:
\* two of its edges cross, and the Polygon on it is not valid.
Crossed(r) == <<r[1], r[3], r[2]>> \o SubSeq(r, 4, Len(r))

\* What "import alphashape; alphashape.alphashape(points_list, alpha)" does on four
\* or more points: it raises (no such module, or no triangulation: the points are
\* collinear), or returns the union of the triangles it kept: none (an empty
\* GeometryCollection or an empty Polygon, as the version of the libraries has
\* it), one region (a Polygon, here the hull, or a ring that is not valid), or
\* two regions (a MultiPolygon, here two triangles that share no point).
Raised == [type |-> "Exception", coords |-> <<>>]

AlphaOutcomes(P) ==
    IF Collinear(P) THEN {Raised}
    ELSE {Raised, EmptyCollection, Polygon(<<>>)}
         \cup {Polygon(r) : r \in HullRings(P)}
         \cup {Polygon(Crossed(r)) : r \in {h \in HullRings(P) : Len(h) >= 5}}
         \cup {MultiPolygon(<<Triangle(S), Triangle(T)>>) :
                 <<S, T>> \in {st \in Triples(P) \X Triples(P) : st[1] \cap st[2] = {}}}

\* A variant that returns whatever alphashape gave unless it raised.
concave_hull_unchecked(points, convex, alpha_result) ==
    IF Cardinality(points) < 4 THEN convex
    ELSE IF alpha_result.type = "Exception" THEN convex
    ELSE IF alpha_result.type = "MultiPolygon"
         THEN MaxByArea(Tail(alpha_result.geoms), Head(alpha_result.geoms))
    ELSE alpha_result

\* concave_hull(points, alpha), given the library's answers: convex is what
\* MultiPoint(points).convex_hull returns, alpha_result what alphashape returns.
concave_hull(points, convex, alpha_result) ==
    IF Cardinality(points) < 4 THEN convex
    ELSE IF alpha_result.type = "Exception" THEN convex
    ELSE IF alpha_result.type = "Polygon" THEN alpha_result
    ELSE IF alpha_result.type = "MultiPolygon"
         THEN MaxByArea(Tail(alpha_result.geoms), Head(alpha_result.geoms))
    ELSE convex

\* concave_hull prints "Alphashape failed" when the library raised.
AlphaFailed(points, alpha_result) ==
    Cardinality(points) >= 4 /\ alpha_result.type = "Exception"


-----------------------------------------------------------------------------
(* simplify_polygon.                                                       *)

max_points == 40
ToleranceStart == 1
ToleranceStep == 5
ToleranceBound == 100

\* The first c - 1 coordinates of a closed ring, closed again.
SubRing(ring, c) == Append(SubSeq(ring, 1, c - 1), ring[1])

\* g.simplify(t, preserve_topology=True), given the number c of coordinates the
\* library leaves: a Polygon keeps a closed ring of at least 4 coordinates taken
\* from its own, starting where it starts; no coordinate is added.
simplify(g, t, c) ==
    IF g.type # "Polygon" \/ Len(g.coords) <= 4 THEN g
    ELSE Polygon(SubRing(g.coords,
                         IF c < 4 THEN 4 ELSE IF c > Len(g.coords) THEN Len(g.coords) ELSE c))

\* A variant without the bound on the tolerance.
LoopCondUnbounded(simp, t) == Len(simp.coords) > max_points

\* The condition of the while loop.
LoopCond(simp, t) == Len(simp.coords) > max_points /\ t < ToleranceBound

\* The tolerances the loop can pass to simplify.
Tolerances == {ToleranceStart + k * ToleranceStep : k \in 0..(ToleranceBound \div ToleranceStep)}

\* The while loop run to its end; left[t] is the count the library leaves at tolerance t.
RECURSIVE SimplifyLoop(_, _, _, _)
SimplifyLoop(p, t, simp, left) ==
    IF LoopCond(simp, t)
    THEN SimplifyLoop(p, t + ToleranceStep, simplify(p, t + ToleranceStep, left[t + ToleranceStep]), left)
    ELSE simp

\* simplify_polygon(poly, max_points)
simplify_polygon(p, left) ==
    IF p.type # "Polygon" THEN p
    ELSE SimplifyLoop(p, ToleranceStart, simplify(p, ToleranceStart, left[ToleranceStart]), left)

-----------------------------------------------------------------------------
(* The emit pass: one EXCLUDE_OBJECT_DEFINE command per object.            *)

\* num / den rounded to the nearest integer, a tie to the even one.
RoundDiv(num, den) ==
    LET q == num \div den
        r == num - q * den
    IN  IF 2 * r < den THEN q
        ELSE IF 2 * r > den THEN q + 1
        ELSE IF q % 2 = 0 THEN q ELSE q + 1

RECURSIVE SumCoord(_, _)
SumCoord(coords, axis) ==
    IF coords = <<>> THEN 0 ELSE Head(coords)[axis] + SumCoord(Tail(coords), axis)

\* A variant that leaves the ring's closing coordinate out of the mean.
CenterOpen(coords, axis) ==
    RoundDiv(10 * SumCoord(SubSeq(coords, 1, Len(coords) - 1), axis), Len(coords) - 1)

\* round(sum(...) / len(coords), 3), in thousandths, of coordinates in hundredths.
\* (The inputs' coordinates are multiples of 0.5: their sums and means are exact
\* floats, and a mean half way between two thousandths rounds to the even one.)
Center(coords, axis) == RoundDiv(10 * SumCoord(coords, axis), Len(coords))

\* The digits of n < 1000 after the point: three, the trailing zeros dropped, one kept.
Fraction(n) ==
    IF n % 1000 = 0 THEN "0"
    ELSE LET d == ToString(1000 + (n % 1000))
             d3 == SubSeq(d, 2, 4)
         IN  IF n % 100 = 0 THEN SubSeq(d3, 1, 1)
             ELSE IF n % 10 = 0 THEN SubSeq(d3, 1, 2)
             ELSE d3

\* f"{v}" of a float with at most three decimals, held in thousandths.  (No input
\* gives a negative zero, which Python prints as -0.0.)
FormatFloat(m) ==
    (IF m < 0 THEN "-" ELSE "") \o ToString(Abs(m) \div 1000) \o "." \o Fraction(Abs(m))

\* "],[".join(f"{round(x, 3)},{round(y, 3)}" for x, y in coords)
RECURSIVE JoinCoords(_)
JoinCoords(coords) ==
    IF coords = <<>> THEN ""
    ELSE FormatFloat(10 * Head(coords)[1]) \o "," \o FormatFloat(10 * Head(coords)[2])
         \o (IF Len(coords) > 1 THEN "],[" ELSE "") \o JoinCoords(Tail(coords))

\* A variant that gives the first object of a name a suffix too.
UniqueNameAlways(name, copy_number) == name \o "_copy" \o ToString(copy_number)

\* unique_name
UniqueName(name, copy_number) ==
    IF copy_number > 0 THEN name \o "_copy" \o ToString(copy_number) ELSE name

\* define_cmd
DefineCmd(name, copy_number, coords) ==
    "EXCLUDE_OBJECT_DEFINE NAME=\"" \o UniqueName(name, copy_number) \o "\" "
    \o "CENTER=" \o FormatFloat(Center(coords, 1)) \o "," \o FormatFloat(Center(coords, 2)) \o " "
    \o "POLYGON=[[" \o JoinCoords(coords) \o "]]\n"

\* name_counts[name] of the defaultdict(int)
Count(counts, name) == IF name \in DOMAIN counts THEN counts[name] ELSE 0

\* A variant that never counts.
KeepCount(counts, name) == counts

\* name_counts[name] += 1
Increment(counts, name) ==
    [n \in DOMAIN counts \cup {name} |-> IF n = name THEN Count(counts, name) + 1 ELSE counts[n]]

Printed(msg, name) == [msg |-> msg, name |-> name]

\* A variant that asks for four points.
TooFewFour(points) == Cardinality(points) < 4

\* "if len(points) < 3"
TooFew(points) == Cardinality(points) < 3

\* A variant that leaves the loop at the first object skipped.
Break(taken, total, skipped) == IF skipped THEN total ELSE taken + 1

\* "continue": the loop takes the next item, whether this one was skipped or emitted.
Continue(taken, total, skipped) == taken + 1

\* The body of "for obj_id, obj_data in objects.items()" for the item obj, on the
\* emit pass's variables em, with the libraries' answers: convex (the convex
\* hull), alpha_result (alphashape) and left (the count simplify leaves).
EmitStep(em, obj, convex, alpha_result, left) ==
    LET name == obj.name
        copy_number == Count(em.name_counts, name)
        em1 == [em EXCEPT !.name_counts = Increment(@, name)]
        points == obj.points
        hull == concave_hull(points, convex, alpha_result)
        em2 == [em1 EXCEPT !.stdout =
                   IF AlphaFailed(points, alpha_result)
                   THEN @ \o <<Printed("processing", name), Printed("alphashape_failed", name)>>
                   ELSE Append(@, Printed("processing", name))]
        simple == simplify_polygon(hull, left)
    IN  IF TooFew(points)
        THEN [em1 EXCEPT !.stdout = Append(@, Printed("too_few_points", name))]
        ELSE IF is_empty(hull)
        THEN [em2 EXCEPT !.stdout = Append(@, Printed("no_hull", name))]
        ELSE IF simple.type # "Polygon"
        THEN [em2 EXCEPT !.stdout = Append(@, Printed("error", name))]
        ELSE [em2 EXCEPT !.define_commands = Append(@, DefineCmd(name, copy_number, simple.coords)),
                         !.stdout = Append(@, Printed("created", name))]

Emitter == [name_counts |-> name_counts, define_commands |-> define_commands, stdout |-> stdout]

NoCounts == [n \in {} |-> 0]

\* The scan loop has ended: name_counts = defaultdict(int), define_commands = [].
StartEmit ==
    /\ pc = "scan"
    /\ Len(output_lines) = Len(lines)
    /\ pc' = "emit"
    /\ name_counts' = NoCounts
    /\ define_commands' = <<>>
    /\ UNCHANGED hullvars
    /\ UNCHANGED <<lines, output_lines, insert_position, current_object_id, in_support,
                   objects, visited, stdout, poly, tolerance, simplified, simplify_calls>>

\* One iteration of the loop over objects.items().
EmitObject ==
    /\ pc = "emit"
    /\ visited < Len(objects)
    /\ LET obj == objects[visited + 1]
           P == obj.points
           n == Cardinality(P)
       IN  \E convex \in (IF n >= 3 THEN ConvexHulls(P) ELSE {EmptyCollection}),
              alpha_result \in (IF n >= 4 THEN AlphaOutcomes(P) ELSE {EmptyCollection}) :
             LET hull == concave_hull(P, convex, alpha_result)
             IN  \E c \in (IF n >= 3 /\ hull.type = "Polygon" /\ ~is_empty(hull)
                           THEN 4..Len(hull.coords) ELSE {0}) :
                    LET em == EmitStep(Emitter, obj, convex, alpha_result, [t \in Tolerances |-> c])
                    IN  /\ name_counts' = em.name_counts
                        /\ define_commands' = em.define_commands
                        /\ stdout' = em.stdout
                        /\ visited' = Continue(visited, Len(objects),
                                               Len(em.define_commands) = Len(define_commands))
                        /\ IF TooFew(P)
                           THEN UNCHANGED hullvars
                           ELSE /\ ch_points' = P
                                /\ ch_alpha' = alpha_result
                                /\ ch_hull' = hull
    /\ UNCHANGED <<lines, pc, output_lines, insert_position, current_object_id, in_support,
                   objects, poly, tolerance, simplified, simplify_calls>>

-----------------------------------------------------------------------------
(* The insertion of the block, and the write.                              *)

MarkerLine == "\n; Generated by exact_outline_post.py\n"

\* A variant that replaces the element at index i.
InsertOver(list, i, x) == SubSeq(list, 1, i) \o <<x>> \o SubSeq(list, i + 2, Len(list))

\* list.insert(i, x) for 0 <= i <= len
Insert(list, i, x) == SubSeq(list, 1, i) \o <<x>> \o SubSeq(list, i + 1, Len(list))

\* A variant that takes the commands in generation order, from the k-th last one up.
RECURSIVE InsertForward(_, _, _, _)
InsertForward(list, at, cmds, k) ==
    IF k = 0 THEN list
    ELSE InsertForward(SubSeq(list, 1, at + 1) \o <<cmds[Len(cmds) - k + 1]>>
                           \o SubSeq(list, at + 2, Len(list)),
                       at, cmds, k - 1)

\* "for cmd in reversed(define_commands): output_lines.insert(at + 1, cmd)", from
\* the k-th command down.
RECURSIVE InsertReversed(_, _, _, _)
InsertReversed(list, at, cmds, k) ==
    IF k = 0 THEN list
    ELSE InsertReversed(Insert(list, at + 1, cmds[k]), at, cmds, k - 1)

\* The insert position once the fallback is applied.
Fallback(pos) == IF pos = None THEN Some(0) ELSE pos

\* A variant that writes the marker and the blank line around no command too.
WithBlockAlways(list, at, cmds) ==
    Insert(InsertReversed(Insert(list, at, MarkerLine), at, cmds, Len(cmds)),
           at + 1 + Len(cmds), "\n")

\* output_lines after the block is inserted at position at.
WithBlock(list, at, cmds) ==
    IF cmds = <<>> THEN list
    ELSE Insert(InsertReversed(Insert(list, at, MarkerLine), at, cmds, Len(cmds)),
                at + 1 + Len(cmds), "\n")

\* The emit loop has ended: the fallback, the insertion and f.writelines(output_lines).
InsertCommands ==
    /\ pc = "emit"
    /\ visited = Len(objects)
    /\ insert_position' = Fallback(insert_position)
    /\ output_lines' = WithBlock(output_lines, Fallback(insert_position)[1], define_commands)
    /\ pc' = "done"
    /\ UNCHANGED hullvars
    /\ UNCHANGED <<lines, current_object_id, in_support, objects, name_counts,
                   define_commands, visited, stdout, poly, tolerance, simplified, simplify_calls>>


-----------------------------------------------------------------------------
(* simplify_polygon, statement by statement.                               *)

\* "if not isinstance(poly, Polygon): return poly", else the first simplification.
SimplifyEnter ==
    /\ pc = "call"
    /\ IF poly.type # "Polygon"
       THEN /\ simplified' = poly
            /\ pc' = "returned"
            /\ UNCHANGED <<tolerance, simplify_calls>>
       ELSE /\ tolerance' = ToleranceStart
            /\ \E c \in {4, max_points, max_points + 1, Len(poly.coords)} :
                  simplified' = simplify(poly, ToleranceStart, c)
            /\ simplify_calls' = Append(simplify_calls, [receiver |-> poly, tolerance |-> ToleranceStart])
            /\ pc' = "loop"
    /\ UNCHANGED hullvars
    /\ UNCHANGED <<lines, output_lines, insert_position, current_object_id, in_support,
                   objects, name_counts, define_commands, visited, stdout, poly>>

\* A variant of the iteration that simplifies the previous result.
SimplifyChained ==
    /\ pc = "loop"
    /\ LoopCond(simplified, tolerance)
    /\ tolerance' = tolerance + ToleranceStep
    /\ \E c \in {4, max_points, max_points + 1, Len(simplified.coords)} :
          simplified' = simplify(simplified, tolerance + ToleranceStep, c)
    /\ simplify_calls' = Append(simplify_calls, [receiver |-> simplified, tolerance |-> tolerance + ToleranceStep])
    /\ UNCHANGED hullvars
    /\ UNCHANGED <<lines, pc, output_lines, insert_position, current_object_id, in_support,
                   objects, name_counts, define_commands, visited, stdout, poly>>

\* One iteration of the while loop.
SimplifyIterate ==
    /\ pc = "loop"
    /\ LoopCond(simplified, tolerance)
    /\ tolerance' = tolerance + ToleranceStep
    /\ \E c \in {4, max_points, max_points + 1, Len(poly.coords)} :
          simplified' = simplify(poly, tolerance + ToleranceStep, c)
    /\ simplify_calls' = Append(simplify_calls, [receiver |-> poly, tolerance |-> tolerance + ToleranceStep])
    /\ UNCHANGED hullvars
    /\ UNCHANGED <<lines, pc, output_lines, insert_position, current_object_id, in_support,
                   objects, name_counts, define_commands, visited, stdout, poly>>

\* "return simplified"
SimplifyReturn ==
    /\ pc = "loop"
    /\ ~LoopCond(simplified, tolerance)
    /\ pc' = "returned"
    /\ UNCHANGED hullvars
    /\ UNCHANGED <<lines, output_lines, insert_position, current_object_id, in_support,
                   objects, name_counts, define_commands, visited, stdout,
                   poly, tolerance, simplified, simplify_calls>>

-----------------------------------------------------------------------------
(* concave_hull, statement by statement.                                   *)

\* "if len(points) < 4: return MultiPoint(points).convex_hull", else into the try block.
HullEnter ==
    /\ pc = "hull_call"
    /\ IF Cardinality(ch_points) < 4
       THEN /\ \E convex \in ConvexHulls(ch_points) :
                  ch_hull' = concave_hull(ch_points, convex, ch_alpha)
            /\ pc' = "hull_returned"
       ELSE /\ pc' = "alphashape"
            /\ UNCHANGED ch_hull
    /\ UNCHANGED <<ch_points, ch_alpha>>
    /\ UNCHANGED <<lines, output_lines, insert_position, current_object_id, in_support,
                   objects, name_counts, define_commands, visited, stdout,
                   poly, tolerance, simplified, simplify_calls>>

\* "import alphashape" and "hull = alphashape.alphashape(points_list, alpha)":
\* the result, or the exception.
HullAlphashape ==
    /\ pc = "alphashape"
    /\ ch_alpha' \in AlphaOutcomes(ch_points)
    /\ pc' = "hull_branch"
    /\ UNCHANGED <<ch_points, ch_hull>>
    /\ UNCHANGED <<lines, output_lines, insert_position, current_object_id, in_support,
                   objects, name_counts, define_commands, visited, stdout,
                   poly, tolerance, simplified, simplify_calls>>

\* The branches on hull.geom_type and the except clause: the return, after the
\* print of "Alphashape failed" when the library raised.  The message names no
\* object, and concave_hull called by itself is given none: the record's name is
\* empty.
HullReturn ==
    /\ pc = "hull_branch"
    /\ \E convex \in ConvexHulls(ch_points) :
          ch_hull' = concave_hull(ch_points, convex, ch_alpha)
    /\ stdout' = IF AlphaFailed(ch_points, ch_alpha)
                 THEN Append(stdout, Printed("alphashape_failed", ""))
                 ELSE stdout
    /\ pc' = "hull_returned"
    /\ UNCHANGED <<ch_points, ch_alpha>>
    /\ UNCHANGED <<lines, output_lines, insert_position, current_object_id, in_support,
                   objects, name_counts, define_commands, visited,
                   poly, tolerance, simplified, simplify_calls>>

-----------------------------------------------------------------------------
(* Inputs.                                                                 *)

MaxParts == 2
MaxRing == 45
MaxCluster == 3

\* The single lines the inputs are made of.
LineSet == {
    "\n",
    "  M104 S200\n",
    "; printing object Cube id:1 copy 0\n",
    "; printing object Box id:1 copy 0\n",
    "; printing object Cube id:2 copy 0\n",
    "; printing object Cube\n",
    "; printing object Cube id:x\n",
    "; stop printing object Cube id:1 copy 0\n",
    ";TYPE:Support\n",
    ";type:support interface\n",
    ";TYPE:Outer wall\n",
    ";type:inner wall\n",
    "G1 X0 Y0 E0.5\n",
    "G1 X0.001 Y0.004\n",
    "G0 X10 Y2.5\n",
    "G1 X5 F1200\n",
    "G1 Xa Y1\n",
    "G1 X1 Y1 ;TYPE:Bridge\n" }

RECURSIVE SeqsUpTo(_, _)
\* The sequences over S of length at most n.
SeqsUpTo(S, n) ==
    IF n = 0 THEN {<<>>}
    ELSE LET shorter == SeqsUpTo(S, n - 1)
         IN  shorter \cup {Append(q, x) : q \in shorter, x \in S}

\* An object's start marker followed by the lines printed for it.
Object(name, id, body) == <<"; printing object " \o name \o " id:" \o id \o " copy 0\n">> \o body

TriangleMoves == <<"G1 X0 Y0\n", "G1 X10 Y0\n", "G1 X0 Y10\n">>
SecondTriangleMoves == <<"G1 X0 Y0\n", "G1 X10 Y0\n", "G1 X10 Y10\n">>
ThirdTriangleMoves == <<"G1 X0 Y0\n", "G1 X10 Y10\n", "G1 X0 Y10\n">>
SquareMoves == <<"G1 X0 Y0\n", "G1 X10 Y0\n", "G1 X10 Y10\n", "G1 X0 Y10\n">>
PairMoves == <<"G1 X0 Y0\n", "G1 X10 Y0\n", "G1 X0.001 Y0\n">>
LineMoves == <<"G1 X0 Y0\n", "G1 X5 Y5\n", "G1 X10 Y10\n">>

\* An object whose only motion lines come under a support marker.
SupportOnly == Object("Cube", "9", <<";TYPE:Support\n">> \o TriangleMoves)

\* The objects the inputs are made of: three triangles (two of one name), an
\* object of two distinct points, one of three collinear points, and one printed
\* as support only.
ObjectSet == {
    Object("Cube", "1", TriangleMoves),
    Object("Cube", "2", SecondTriangleMoves),
    Object("Box", "3", ThirdTriangleMoves),
    Object("Cube", "4", PairMoves),
    Object("Box", "6", LineMoves),
    SupportOnly }

RECURSIVE Flatten(_)
Flatten(parts) == IF parts = <<>> THEN <<>> ELSE Head(parts) \o Flatten(Tail(parts))

\* Inputs on which alphashape is called: the corners of a 10 x 10 square (one
\* object "Cube", id 5), two islands of three points each, and four collinear points.
Square == Object("Cube", "5", SquareMoves)
Islands ==
    Object("Cube", "7", <<"G1 X0 Y0\n", "G1 X1 Y0\n", "G1 X0 Y1\n",
                          "G1 X10 Y10\n", "G1 X8.5 Y10\n", "G1 X10 Y8.5\n">>)
LongLine ==
    Object("Box", "8", <<"G1 X0 Y0\n", "G1 X1 Y1\n", "G1 X2 Y2\n", "G1 X3 Y3\n">>)

\* A square object, for which alphashape is called, and a triangle after it.
SquareThenTriangle == Square \o Object("Cube", "6", TriangleMoves)

\* An object whose support region is ended by a start line without an id.
RestartInSupport ==
    <<"; printing object Cube id:1 copy 0\n", ";TYPE:Support\n", "; printing object Cube\n">>
    \o TriangleMoves

\* Two objects named Cube and a third whose own name is Cube_copy1.
CopyClash ==
    Object("Cube", "1", TriangleMoves) \o Object("Cube", "2", SecondTriangleMoves)
    \o Object("Cube_copy1", "3", ThirdTriangleMoves)

\* The input files: at most MaxParts parts, each a single line or an object, and
\* the six above.
Inputs ==
    {Flatten(b) : b \in SeqsUpTo(ObjectSet \cup {<<l>> : l \in LineSet}, MaxParts)}
    \cup {Square, Islands, LongLine, CopyClash, RestartInSupport, SquareThenTriangle}

\* A closed ring of n + 1 coordinates in convex position.
ConvexRing(n) == Append([k \in 1..n |-> <<100 * (k - 1), 100 * (k - 1) * (k - 1)>>], <<0, 0>>)

\* The first n points of two clusters, far from each other, of MaxCluster points
\* each: a right triangle of legs 1.0 and one of legs 1.5, then a fourth point each.
ClusterA == <<<<0, 0>>, <<100, 0>>, <<0, 100>>, <<100, 100>>, <<50, 200>>>>
ClusterB == <<<<1000, 1000>>, <<850, 1000>>, <<1000, 850>>, <<850, 850>>, <<900, 700>>>>
TwoClusters(n) == {ClusterA[i] : i \in 1..n} \cup {ClusterB[i] : i \in 1..n}

\* The point sets concave_hull is given: a triangle, the corners of a square,
\* four collinear points, and two clusters.
HullInputs ==
    { {<<0, 0>>, <<1000, 0>>, <<0, 1000>>},
      {<<0, 0>>, <<1000, 0>>, <<1000, 1000>>, <<0, 1000>>},
      {<<0, 0>>, <<100, 100>>, <<200, 200>>, <<300, 300>>} }
    \cup {TwoClusters(n) : n \in 3..MaxCluster}

\* The geometries simplify_polygon is given.
SimplifyInputs ==
    {Polygon(ConvexRing(n)) : n \in {3, max_points - 1, max_points, MaxRing - 1}}
    \cup {LineString(<<<<0, 0>>, <<1000, 1000>>>>)}

-----------------------------------------------------------------------------
(* Specifications.                                                         *)

Idle ==
    /\ output_lines = <<>>
    /\ insert_position = None
    /\ current_object_id = None
    /\ in_support = FALSE
    /\ objects = <<>>
    /\ name_counts = NoCounts
    /\ define_commands = <<>>
    /\ visited = 0
    /\ stdout = <<>>
    /\ tolerance = 0
    /\ simplify_calls = <<>>

HullIdle ==
    /\ ch_points = {}
    /\ ch_alpha = EmptyCollection
    /\ ch_hull = EmptyCollection

\* main() once the file is read.
Init ==
    /\ lines \in Inputs
    /\ pc = "scan"
    /\ poly = EmptyCollection
    /\ simplified = EmptyCollection
    /\ Idle
    /\ HullIdle

Next == ScanLine \/ StartEmit \/ EmitObject \/ InsertCommands

Spec == Init /\ [][Next]_vars

\* simplify_polygon(poly) called on a geometry.
InitSimplify ==
    /\ lines = <<>>
    /\ pc = "call"
    /\ poly \in SimplifyInputs
    /\ simplified = EmptyCollection
    /\ Idle
    /\ HullIdle

NextSimplify == SimplifyEnter \/ SimplifyIterate \/ SimplifyReturn

SpecSimplify == InitSimplify /\ [][NextSimplify]_vars

\* concave_hull(points) called on a set of points.
InitHull ==
    /\ lines = <<>>
    /\ pc = "hull_call"
    /\ poly = EmptyCollection
    /\ simplified = EmptyCollection
    /\ Idle
    /\ ch_points \in HullInputs
    /\ ch_alpha = EmptyCollection
    /\ ch_hull = EmptyCollection

NextHull == HullEnter \/ HullAlphashape \/ HullReturn

SpecHull == InitHull /\ [][NextHull]_vars

\* The call runs on: a sequential program that can take its next statement takes it.
SpecSimplifyFair == SpecSimplify /\ WF_vars(NextSimplify)

-----------------------------------------------------------------------------
(* Properties: what the log and the output show of each object.            *)

Done == pc = "done"

\* The message that ends an object's iteration of the emit loop.
IsTerminal(r) == r.msg \in {"too_few_points", "no_hull", "error", "created"}

\* One outcome per object visited, in the order of the visits.
Outcomes == SelectSeq(stdout, IsTerminal)

Emitted(k) == Outcomes[k].msg = "created"

\* The command of the k-th object, when it got one.
CommandOf(k) == define_commands[Cardinality({i \in 1..k : Emitted(i)})]

\* The NAME field of a command.
CmdName(cmd) == Slice(cmd, Len("EXCLUDE_OBJECT_DEFINE NAME=\""), Find(cmd, "\" CENTER="))

\* The number of objects before the k-th, in encounter order, that bear its name.
EarlierSameName(k) == Cardinality({i \in 1..(k - 1) : objects[i].name = objects[k].name})

\* The display name of the r-th repetition of a name, written out.
DisplayName(name, r) == IF r = 0 THEN name ELSE name \o "_copy" \o ToString(r)

-----------------------------------------------------------------------------
(* C1 *)

BlockIndexes == {i \in 1..Len(output_lines) : output_lines[i] = MarkerLine}

\* The output with the elements of the block taken out: the marker element, as
\* many elements as there are commands, and one more.
WithoutBlock ==
    IF BlockIndexes = {} THEN output_lines
    ELSE SubSeq(output_lines, 1, Min(BlockIndexes) - 1)
         \o SubSeq(output_lines, Min(BlockIndexes) + Len(define_commands) + 2, Len(output_lines))

TheBlock ==
    SubSeq(output_lines, Min(BlockIndexes), Min(BlockIndexes) + Len(define_commands) + 1)

\* C1: every input line is in the output, unchanged and in its original order:
\* while the lines are read the output is the prefix of the input read so far, and
\* in the file written, deleting the inserted block (the marker element, the
\* commands, the blank line) leaves exactly the input; there is a block exactly
\* when there is a command.
C1_PassThrough ==
    /\ pc \in {"scan", "emit"} => output_lines = SubSeq(lines, 1, Len(output_lines))
    /\ Done => /\ WithoutBlock = lines
               /\ (BlockIndexes # {}) <=> (define_commands # <<>>)
               /\ BlockIndexes # {} => TheBlock = <<MarkerLine>> \o define_commands \o <<"\n">>

\* A file is written whose block has input lines before it and after it.
C1_Witness ==
    /\ Done
    /\ BlockIndexes # {}
    /\ Min(BlockIndexes) > 1
    /\ Min(BlockIndexes) + Len(define_commands) + 1 < Len(output_lines)

-----------------------------------------------------------------------------
(* C2 *)

\* C2: when at least one command was generated and the anchor is the input
\* index a, the file written holds the marker at a, the n commands at a+1..a+n in
\* the order they were generated, an empty line at a+n+1 and the original anchor
\* line at a+n+2 (indexes from 0), and nothing else is added.
C2_BlockLayout ==
    (Done /\ define_commands # <<>>) =>
        LET a == insert_position[1]
            n == Len(define_commands)
        IN  /\ Len(output_lines) = Len(lines) + n + 2
            /\ output_lines[a + 1] = MarkerLine
            /\ \A j \in 1..n : output_lines[a + 1 + j] = define_commands[j]
            /\ output_lines[a + n + 2] = "\n"
            /\ a < Len(lines)
            /\ output_lines[a + n + 3] = lines[a + 1]

\* A block of two different commands is written at an anchor that is not line 0.
C2_Witness ==
    /\ Done
    /\ Len(define_commands) >= 2
    /\ define_commands[1] # define_commands[2]
    /\ insert_position[1] >= 1

-----------------------------------------------------------------------------
(* C3 *)

\* A line that, stripped, is not empty, does not start with ";" and starts with "G" or "M".
Qualifies(line) ==
    LET ls == Strip(line)
    IN  /\ ls # ""
        /\ Ch(ls, 1) # ";"
        /\ Ch(ls, 1) \in {"G", "M"}

\* The 0-based indexes of the qualifying lines among the first n.
QualifyingIn(n) == {i - 1 : i \in {j \in 1..n : Qualifies(lines[j])}}

\* C3: the anchor is assigned at most once: as long as no qualifying line was
\* read it is unset, from then on it is the index of the first qualifying line
\* whatever lines follow, and when the file has no qualifying line it falls back
\* to 0 at the insertion.
C3_Anchor ==
    /\ pc \in {"scan", "emit"} =>
          insert_position = IF QualifyingIn(Len(output_lines)) = {} THEN None
                            ELSE Some(Min(QualifyingIn(Len(output_lines))))
    /\ Done =>
          insert_position = IF QualifyingIn(Len(lines)) = {} THEN Some(0)
                            ELSE Some(Min(QualifyingIn(Len(lines))))

\* A second qualifying line was read after the first, which is not line 0.
C3_Witness ==
    /\ pc = "scan"
    /\ Cardinality(QualifyingIn(Len(output_lines))) >= 2
    /\ insert_position # None
    /\ insert_position[1] >= 1

-----------------------------------------------------------------------------
(* C4 *)

\* The number of objects before the k-th that bear its name and got a command.
EarlierEmittedSameName(k) ==
    Cardinality({i \in 1..(k - 1) : objects[i].name = objects[k].name /\ Emitted(i)})

\* C4, as stated: the copy index in the display name of every emitted object is
\* the number of objects of the same name emitted before it; a skipped object of
\* that name does not count.
C4_CountsEmitted ==
    \A k \in 1..Len(Outcomes) :
        Emitted(k) =>
            CmdName(CommandOf(k)) = DisplayName(objects[k].name, EarlierEmittedSameName(k))

\* C4, amended: the copy index in the display name of every emitted object is the
\* number of objects of the same name met before it in encounter order, emitted
\* or skipped.
C4_CountsEncountered ==
    \A k \in 1..Len(Outcomes) :
        Emitted(k) =>
            CmdName(CommandOf(k)) = DisplayName(objects[k].name, EarlierSameName(k))

\* An object is emitted after a skipped object of the same name.
C4_Witness ==
    \E k \in 1..Len(Outcomes) :
        /\ Emitted(k)
        /\ \E i \in 1..(k - 1) : objects[i].name = objects[k].name /\ ~Emitted(i)

-----------------------------------------------------------------------------
(* C5 *)

\* The index in stdout of the message that ends the k-th object's iteration.
TerminalIndex(k) ==
    CHOOSE i \in 1..Len(stdout) :
        /\ IsTerminal(stdout[i])
        /\ Cardinality({j \in 1..i : IsTerminal(stdout[j])}) = k

\* No polygon is the convex hull of the k-th object's points.
ConvexFails(k) == Collinear(objects[k].points)

\* The concave hull of the k-th object's points was not built: there are fewer
\* than four points, or alphashape is reported to have failed.
ConcaveFails(k) ==
    \/ Cardinality(objects[k].points) < 4
    \/ /\ TerminalIndex(k) > 1
       /\ stdout[TerminalIndex(k) - 1].msg = "alphashape_failed"

AlphaGaveEmptyPolygon(k) ==
    /\ Cardinality(objects[k].points) >= 4
    /\ ch_points = objects[k].points
    /\ ch_alpha.type = "Polygon"
    /\ is_empty(ch_alpha)

-----------------------------------------------------------------------------
(* C6 *)

\* The k-th object has three points or more and a successful hull: its convex
\* hull is a polygon, and the hull concave_hull returned for it was not empty.
CanBeOutlined(k) ==
    /\ Cardinality(objects[k].points) >= 3
    /\ ~Collinear(objects[k].points)
    /\ Outcomes[k].msg # "no_hull"

\* C6: a failure skips only the object it happens on: the emit pass visits every
\* object, each once, and every object with at least three points and a hull
\* gets its command, wherever the failing objects stand.
C6_SkipsOnlyThatObject ==
    /\ pc \in {"emit", "done"} => Len(Outcomes) = visited
    /\ Done =>
          /\ visited = Len(objects)
          /\ \A k \in 1..Len(objects) : CanBeOutlined(k) => Emitted(k)
          /\ Len(define_commands) = Cardinality({k \in 1..Len(objects) : CanBeOutlined(k)})

\* The pass has ended, with an object emitted after one that failed for an
\* empty hull.
C6_Witness ==
    /\ Done
    /\ \E k \in 1..Len(Outcomes) :
          /\ Emitted(k)
          /\ \E i \in 1..(k - 1) : Outcomes[i].msg = "no_hull"

-----------------------------------------------------------------------------
(* C7 *)

\* The line the next scan step reads.
NextLine == Strip(lines[Len(output_lines) + 1])

\* The objects whose point set the step changes.
Changed == {k \in 1..Len(objects) : objects'[k].points # objects[k].points}

\* C7, as stated: a scan step changes an object's point set only if the object
\* is the active one and the support flag is false when the line is read; a line
\* read while no object is active or while the support flag is set adds no point.
C7_NoPointWhileFlagged ==
    [][\A k \in Changed : current_object_id = Some(objects[k].id) /\ ~in_support]_vars

\* C7, amended: a scan step changes an object's point set only if the object is
\* the active one before and after the line and the support flag is false once
\* the line's own marker is applied: a line read while the flag is set adds a
\* point only when it carries a ";TYPE:" marker other than ";TYPE:Support" itself,
\* which clears the flag first; and the object whose only motion lines come under
\* a support marker ends with no point and no command.
C7_PointsOnlyWhenActive ==
    [][/\ \A k \in Changed :
             /\ current_object_id = Some(objects[k].id)
             /\ current_object_id' = current_object_id
             /\ ~in_support'
             /\ in_support => IsTypeReset(NextLine)
       /\ (lines = SupportOnly /\ pc' = "done") =>
             /\ objects'[1].points = {}
             /\ define_commands' = <<>>
             /\ output_lines' = lines
      ]_vars

\* The moves under the support marker were read without a point, and the move
\* that carries a marker of its own, read while the flag was set, added one.
C7_Witness ==
    /\ lines = SupportOnly \o <<"G1 X1 Y1 ;TYPE:Bridge\n">>
    /\ Len(output_lines) = Len(lines)
    /\ objects[1].points = {<<100, 100>>}
    /\ ~in_support

-----------------------------------------------------------------------------
(* C8 *)

\* Every object of the name got a command.
AllEmitted(name) == \A k \in 1..Len(objects) : objects[k].name = name => Emitted(k)

\* The command written to the file for the k-th object, when it got one.
WrittenCommandOf(k) ==
    output_lines[insert_position[1] + 1 + Cardinality({i \in 1..k : Emitted(i)})]

\* A point as a command lists it.
CoordText(p) == "[" \o FormatFloat(10 * p[1]) \o "," \o FormatFloat(10 * p[2]) \o "]"

\* C8: when every object of a name gets a command, the display names written
\* are name, name_copy1, ..., name_copy(k-1) in the order the objects' start
\* markers were first met, and the commands stand in the file in that same order:
\* the command in an object's place lists that object's own points.
C8_CopyNames ==
    Done =>
        \A k \in 1..Len(objects) :
            AllEmitted(objects[k].name) =>
                /\ CmdName(WrittenCommandOf(k)) = DisplayName(objects[k].name, EarlierSameName(k))
                /\ Cardinality(objects[k].points) = 3 =>
                      \A p \in objects[k].points : Contains(WrittenCommandOf(k), CoordText(p))

\* Two objects of one name, with different points, both got a command.
C8_Witness ==
    /\ Done
    /\ Len(objects) = 2
    /\ objects[1].name = objects[2].name
    /\ objects[1].points # objects[2].points
    /\ Emitted(1) /\ Emitted(2)
    /\ CmdName(WrittenCommandOf(2)) = "Cube_copy1"

-----------------------------------------------------------------------------
(* C9 *)

\* The CENTER field of a command, and its two numbers in thousandths.
CmdCenter(cmd) == Slice(cmd, Find(cmd, "CENTER=") + Len("CENTER="), Find(cmd, " POLYGON="))

CenterValue(cmd, axis) == ParseFloat(SplitOn(CmdCenter(cmd), ",")[axis])[1]

\* Scenario A has run, and the ring of its command is the 10 x 10 square: five
\* coordinates, the four corners and the closing one.
SquareRingWritten ==
    /\ Done
    /\ lines = Square
    /\ Len(define_commands) >= 1
    /\ \A p \in {<<0, 0>>, <<1000, 0>>, <<1000, 1000>>, <<0, 1000>>} :
          Contains(define_commands[1], CoordText(p))

\* Scenario A has run and a hull was built for its object.
ScenarioA == Done /\ lines = Square /\ ch_hull.type = "Polygon" /\ ~is_empty(ch_hull)

\* C9, as stated: in Scenario A exactly one command is emitted, and when its ring
\* is the closed 10 x 10 square its CENTER is approximately 5.0,5.0: each number
\* is less than one unit, a tenth of the side, away from 5.0.
C9_CenterNearFive ==
    ScenarioA =>
        /\ Len(define_commands) = 1
        /\ SquareRingWritten =>
              \A axis \in {1, 2} :
                  /\ CenterValue(define_commands[1], axis) > 4000
                  /\ CenterValue(define_commands[1], axis) < 6000

\* The CENTER of the closed square by the corner its ring starts and ends at.
CenterByStart == {
    <<"POLYGON=[[0.0,0.0]", "4.0,4.0">>,
    <<"POLYGON=[[10.0,0.0]", "6.0,4.0">>,
    <<"POLYGON=[[10.0,10.0]", "6.0,6.0">>,
    <<"POLYGON=[[0.0,10.0]", "4.0,6.0">> }

\* C9, amended: in Scenario A exactly one command is emitted, and when its ring
\* is the closed 10 x 10 square its CENTER is the mean of the five coordinates
\* stored, the corner the ring starts at counted twice: each number is 4.0 or
\* 6.0, one unit away from the centre 5.0,5.0 of the square, on the side of that corner.
C9_CenterOfStoredRing ==
    ScenarioA =>
        /\ Len(define_commands) = 1
        /\ SquareRingWritten =>
              \E e \in CenterByStart :
                  /\ Contains(define_commands[1], e[1])
                  /\ CmdCenter(define_commands[1]) = e[2]

\* Scenario A has written the square with the CENTER 4.0,4.0.
C9_Witness ==
    /\ SquareRingWritten
    /\ CmdName(define_commands[1]) = "Cube"
    /\ CmdCenter(define_commands[1]) = "4.0,4.0"

-----------------------------------------------------------------------------
(* C10 *)

\* C10: when simplify_polygon returns for a polygon, the ring returned has at
\* most max_points coordinates or the tolerance has reached the bound 10.0; and
\* every simplification, the last one included, was asked of the original
\* polygon: the ring returned is the original's simplification at the final tolerance.
C10_SimplifyResult ==
    (pc = "returned" /\ poly.type = "Polygon") =>
        /\ Len(simplified.coords) <= max_points \/ tolerance >= ToleranceBound
        /\ simplify_calls # <<>>
        /\ \A i \in 1..Len(simplify_calls) : simplify_calls[i].receiver = poly
        /\ simplify_calls[Len(simplify_calls)].tolerance = tolerance
        /\ simplified = simplify(poly, tolerance, Len(simplified.coords))

\* The function returns at the bound with a ring still above max_points, after
\* the loop has run.
C10_Witness ==
    /\ pc = "returned"
    /\ poly.type = "Polygon"
    /\ Len(simplified.coords) > max_points
    /\ tolerance >= ToleranceBound
    /\ Len(simplify_calls) > 1

-----------------------------------------------------------------------------
(* C11 *)

\* The line the next scan step reads gives both coordinates.
HasKey == extract_xy(NextLine)[1] # None /\ extract_xy(NextLine)[2] # None

\* The rounded (2-decimal) key of that line.
RoundedKey == <<Round2(extract_xy(NextLine)[1][1]), Round2(extract_xy(NextLine)[2][1])>>

\* C11: no step removes a point from an object's point set; a step that changes
\* a set inserts the rounded key of the line read, and the size grows by one
\* exactly then; inserting a key the set already holds leaves the set, and its
\* size, unchanged.  (From the empty set of a new record, the size is so the
\* number of distinct rounded keys inserted.)
C11_PointStore ==
    [][\A k \in 1..Len(objects) :
          /\ objects[k].points \subseteq objects'[k].points
          /\ k \in Changed =>
                /\ HasKey
                /\ RoundedKey \notin objects[k].points
                /\ objects'[k].points = objects[k].points \cup {RoundedKey}
                /\ Cardinality(objects'[k].points) = Cardinality(objects[k].points) + 1
          /\ (pc = "scan" /\ Len(output_lines) < Len(lines) /\ HasKey
                /\ RoundedKey \in objects[k].points) =>
                Cardinality(objects'[k].points) = Cardinality(objects[k].points)
      ]_vars

\* Three insertions were made, two of them of the same rounded key 0.0,0.0
\* (X0 and X0.001), into a set that holds two points.
C11_Witness ==
    /\ lines = Object("Cube", "4", PairMoves)
    /\ Len(output_lines) = Len(lines)
    /\ objects[1].points = {<<0, 0>>, <<1000, 0>>}

-----------------------------------------------------------------------------
(* C12 *)

\* A scan step is about to read a line.
Reading == pc = "scan" /\ Len(output_lines) < Len(lines)

\* A region-type marker, in whatever letter case, whose value is not support.
OtherRegionMarker(ls) ==
    /\ ~StartsWith(ls, "; printing object")
    /\ ~StartsWith(ls, "; stop printing object")
    /\ Contains(Lower(ls), ";type:")
    /\ ~Contains(Lower(ls), ";type:support")

\* C12: when an object id is active and the support flag is set, reading a
\* region-type marker whose value is not support, in whatever letter case it is
\* written, keeps the id and clears the flag, so that the motion lines that
\* follow are collected for that object again.
C12_RegionMarkerResumes ==
    [][(Reading /\ current_object_id # None /\ in_support /\ OtherRegionMarker(NextLine)) =>
          /\ current_object_id' = current_object_id
          /\ ~in_support'
      ]_vars

-----------------------------------------------------------------------------
(* C13 *)

\* The line the next scan step reads is a start marker with an integer id.
ReadsStartWithId ==
    /\ Reading
    /\ StartsWith(NextLine, "; printing object")
    /\ StartMarkerId(NextLine) # None

\* The records that bear the id.
RecordsOf(objs, id) == {k \in 1..Len(objs) : objs[k].id = id}

\* C13: reading a start marker with a parseable integer id, in whatever state,
\* makes that id the active one and clears the support flag; when no record
\* bears the id, one is created at the end with the marker's name and no point;
\* when one does, the records stay as they are, names and points included.
C13_StartMarker ==
    [][ReadsStartWithId =>
          /\ current_object_id' = StartMarkerId(NextLine)
          /\ ~in_support'
          /\ RecordsOf(objects, StartMarkerId(NextLine)[1]) # {} => objects' = objects
          /\ RecordsOf(objects, StartMarkerId(NextLine)[1]) = {} =>
                objects' = Append(objects, [id |-> StartMarkerId(NextLine)[1],
                                            name |-> StartMarkerName(NextLine),
                                            points |-> {}])
          /\ \A k \in 1..Len(objects') : Cardinality(RecordsOf(objects', objects'[k].id)) = 1
      ]_vars

\* A second start marker for id 1, under the name Box, was read after the
\* object Cube of id 1 had collected three points: the record is still Cube's.
C13_Witness ==
    /\ lines = Object("Cube", "1", TriangleMoves) \o <<"; printing object Box id:1 copy 0\n">>
    /\ Len(output_lines) = Len(lines)
    /\ current_object_id = <<1>>
    /\ Len(objects) = 1
    /\ objects[1].name = "Cube"
    /\ Cardinality(objects[1].points) = 3

-----------------------------------------------------------------------------
(* C14 *)

\* Some whitespace-delimited field of the line starts with the letter and has a
\* number after it.
FieldParses(ls, letter) ==
    \E i \in 1..Len(SplitWs(ls)) :
        /\ StartsWith(SplitWs(ls)[i], letter)
        /\ ParseFloat(SubSeq(SplitWs(ls)[i], 2, Len(SplitWs(ls)[i]))) # None

\* The next line is processed as a motion line in Printing(id): an id is active,
\* the support flag is false, and the line is a G0/G1 line that is not taken as
\* a support marker.
MotionInPrinting ==
    /\ Reading
    /\ current_object_id # None
    /\ ~in_support
    /\ IsMove(NextLine)
    /\ ~IsSupportMarker(NextLine)

\* C14: a motion line processed in Printing(id) adds its point to object id, and
\* to no other, when an X field and a Y field parse; with a missing or
\* unparseable X or Y it changes no object; either way the scan goes on (no
\* error) with the same active id and support flag.
C14_MotionFields ==
    [][MotionInPrinting =>
          /\ current_object_id' = current_object_id
          /\ in_support' = in_support
          /\ pc' = "scan"
          /\ output_lines' = Append(output_lines, lines[Len(output_lines) + 1])
          /\ Changed \subseteq RecordsOf(objects, current_object_id[1])
          /\ (FieldParses(NextLine, "X") /\ FieldParses(NextLine, "Y")) =>
                \A k \in RecordsOf(objects, current_object_id[1]) :
                    RoundedKey \in objects'[k].points
          /\ ~(FieldParses(NextLine, "X") /\ FieldParses(NextLine, "Y")) => objects' = objects
      ]_vars

\* A line with an unparseable X field was read in Printing(1) and the object
\* still has the three points it had.
C14_Witness ==
    /\ lines = Object("Cube", "1", TriangleMoves) \o <<"G1 Xa Y1\n">>
    /\ Len(output_lines) = Len(lines)
    /\ pc = "scan"
    /\ current_object_id = <<1>>
    /\ ~in_support
    /\ objects[1].points = {<<0, 0>>, <<1000, 0>>, <<0, 1000>>}

-----------------------------------------------------------------------------
(* C15 *)

\* The number of re-simplifications made: the calls after the first.
Resimplifications == Len(simplify_calls) - 1

\* C15: the tolerance loop terminates for every polygon, whatever counts the
\* simplifications return: the tolerance is 0.1 at the first call and 0.5 more
\* at each re-simplification, at most 20 re-simplifications are made, and the
\* call returns.
C15_LoopTerminates ==
    /\ [](pc \in {"loop", "returned"} /\ poly.type = "Polygon" =>
            /\ Resimplifications <= 20
            /\ tolerance = ToleranceStart + ToleranceStep * Resimplifications
            /\ \A i \in 1..Len(simplify_calls) :
                  simplify_calls[i].tolerance = ToleranceStart + ToleranceStep * (i - 1))
    /\ <>(pc = "returned")

\* The call has returned after 20 re-simplifications that all left the ring
\* above max_points.
C15_Witness ==
    /\ pc = "returned"
    /\ Resimplifications = 20
    /\ Len(simplified.coords) > max_points

-----------------------------------------------------------------------------
(* C16 *)

\* concave_hull has returned from a call with four points or more.
HullReturned == pc = "hull_returned" /\ Cardinality(ch_points) >= 4

\* The geometry returned is the convex hull of all the points given.
ReturnsConvexHull == ch_hull \in ConvexHulls(ch_points)

\* C16, as stated: with four points or more, whenever alphashape gives no simple
\* closed ring (it raised, or what it returned is empty or is not one Polygon),
\* concave_hull returns the convex hull of all the points.
C16_FallsBackToConvex ==
    (HullReturned /\ ch_alpha.type # "Polygon") => ReturnsConvexHull

\* The polygons of a MultiPolygon.
Parts(g) == {g.geoms[i] : i \in 1..Len(g.geoms)}

\* C16, amended: with four points or more, concave_hull returns the convex hull
\* of all the points when alphashape raised or returned anything but a Polygon
\* or a MultiPolygon (such as an empty collection); a MultiPolygon gives its
\* polygon of largest area, not the convex hull; a Polygon is returned as it is.
C16_HullChoice ==
    HullReturned =>
        /\ ch_alpha.type \notin {"Polygon", "MultiPolygon"} => ReturnsConvexHull
        /\ ch_alpha.type = "MultiPolygon" =>
              /\ ch_hull \in Parts(ch_alpha)
              /\ \A g \in Parts(ch_alpha) : Area2(g) <= Area2(ch_hull)
              /\ ~ReturnsConvexHull
        /\ ch_alpha.type = "Polygon" => ch_hull = ch_alpha

\* alphashape returned an empty collection and the convex hull came back.
C16_Witness ==
    /\ HullReturned
    /\ ch_alpha = EmptyCollection
    /\ ReturnsConvexHull
    /\ ch_hull.type = "Polygon"

-----------------------------------------------------------------------------
(* C17 *)

\* C17: the display names of the commands emitted in a run are pairwise
\* distinct, whatever the objects' names, a name that itself ends in _copyN included.
C17_DistinctNames ==
    \A i \in 1..Len(define_commands), j \in 1..Len(define_commands) :
        i # j => CmdName(define_commands[i]) # CmdName(define_commands[j])

-----------------------------------------------------------------------------
(* C18 *)

\* The indexes in the output of the commands and of the lines that, stripped,
\* start with G or M.
CommandLines == {i \in 1..Len(output_lines) : StartsWith(output_lines[i], "EXCLUDE_OBJECT_DEFINE")}
GCodeLines ==
    {i \in 1..Len(output_lines) :
        StartsWith(Strip(output_lines[i]), "G") \/ StartsWith(Strip(output_lines[i]), "M")}

\* C18: whenever a command is emitted the anchor was set by the scan, so the
\* fallback 0 is not used; it is no later than any motion line that contributed
\* a point; and in the file written every EXCLUDE_OBJECT_DEFINE line comes
\* before every line that starts with G or M.
C18_CommandsBeforeGCode ==
    /\ []((pc = "emit" /\ define_commands # <<>>) => insert_position # None)
    /\ []((Done /\ define_commands # <<>>) =>
            /\ QualifyingIn(Len(lines)) # {}
            /\ insert_position = Some(Min(QualifyingIn(Len(lines))))
            /\ CommandLines # {}
            /\ \A i \in CommandLines, j \in GCodeLines : i < j)
    /\ [][Changed # {} =>
            /\ insert_position' # None
            /\ insert_position'[1] <= Len(output_lines)]_vars

\* A file with commands is written, the first G or M line being its third line or later.
C18_Witness ==
    /\ Done
    /\ define_commands # <<>>
    /\ insert_position[1] >= 2
    /\ GCodeLines # {}

-----------------------------------------------------------------------------
(* C19 *)

\* C19: when no object gets a command (there is no object, or every object is
\* skipped), the lines written are the input lines, the same sequence: no
\* marker and no blank line is put in.
C19_NothingInserted ==
    (Done /\ \A k \in 1..Len(objects) : ~Emitted(k)) =>
        /\ define_commands = <<>>
        /\ output_lines = lines
        /\ \A i \in 1..Len(output_lines) : output_lines[i] # MarkerLine

\* A file with two objects, both skipped, is written as it was read.
C19_Witness ==
    /\ Done
    /\ Len(objects) = 2
    /\ ~Emitted(1) /\ ~Emitted(2)
    /\ insert_position[1] > 0
    /\ output_lines = lines

-----------------------------------------------------------------------------
(* C20 *)

\* What follows the first "id:" of the line, split at whitespace.
AfterId(ls) == SplitWs(SubSeq(ls, Find(ls, "id:") + 4, Len(ls)))

\* A line that begins with the start keyword and has no "id:", or no integer
\* right after it.
StartWithoutId(ls) ==
    /\ StartsWith(ls, "; printing object")
    /\ \/ ~Contains(ls, "id:")
       \/ AfterId(ls) = <<>>
       \/ ParseInt(AfterId(ls)[1]) = None

\* C20: a line that begins with the start keyword but has no "id:" or no
\* integer after it makes no record and leaves the active id as it is, yet
\* clears the support flag; so when it comes in Support(id), the motion lines
\* that follow are collected for the id that was active.
C20_StartWithoutId ==
    /\ [][(Reading /\ StartWithoutId(NextLine)) =>
             /\ objects' = objects
             /\ current_object_id' = current_object_id
             /\ ~in_support']_vars
    /\ []((lines = RestartInSupport /\ Len(output_lines) = Len(lines)) =>
             /\ Len(objects) = 1
             /\ current_object_id = <<1>>
             /\ objects[1].points = {<<0, 0>>, <<1000, 0>>, <<0, 1000>>})

\* The start line without an id was read in Support(1), and the three moves
\* after it were collected for object 1, which gets its command.
C20_Witness ==
    /\ lines = RestartInSupport
    /\ Done
    /\ Cardinality(objects[1].points) = 3
    /\ Len(define_commands) = 1

=============================================================================
